---------------------------- MODULE Spec2Model ----------------------------
(***************************************************************************)
(* A model of the endian library: the little-endian integer codec          *)
(* (src/src/endian/little_endian.hpp) and the stream reader cursor         *)
(* (src/src/endian/endian_stream_reader.hpp).                              *)
(*                                                                         *)
(* C++ integer values are modelled as bit vectors: a function from         *)
(* 0..w-1 (bit 0 the least significant) to {0,1}, w the width of the C++   *)
(* type holding the value.  The shifts, masks and ors of the source are    *)
(* operators on these vectors.  A byte of a buffer is a number in 0..255;  *)
(* a buffer is a sequence of bytes, C++ index k being sequence index k+1.  *)
(* Assertions are modelled as enabled (a build without NDEBUG): a failed   *)
(* assert aborts the program.                                              *)
(***************************************************************************)
EXTENDS Integers, Sequences, FiniteSets, TLC

VARIABLES
    buffer,      \* codec: the caller's byte buffer handed to get/put
    value,       \* codec: the value last passed to put or returned by get
    call,        \* codec: the last codec call (a record) and what it acted on
    m_buffer,    \* reader: the bytes the cursor was constructed over
    m_size,      \* reader: endian_stream_reader::m_size
    m_position,  \* reader: endian_stream_reader::m_position
    status,      \* reader: "ok", "abort" (an assert failed), "crash" (UB)
    result,      \* reader: the value argument of the last call, a typed read
    storage,     \* reader: the destination bytes of the last call, a raw read
    last         \* reader: the last reader call and the state it started from

codecVars  == <<buffer, value, call>>
readerVars == <<m_buffer, m_size, m_position, status, result, storage, last>>
vars       == <<buffer, value, call, m_buffer, m_size, m_position, status,
                result, storage, last>>

---------------------------------------------------------------------------
(* Bounds of the model *)

\* Length of the codec's scratch buffer (at least 8, the widest field).
BufLen == 9

\* Largest buffer a reader is constructed over.
MaxSize == 9

---------------------------------------------------------------------------
(* Bit vectors *)

Bit == {0, 1}

\* The w-bit vector of the natural number n (n < 2^31).
BitsOf(n, w) == [i \in 0..(w - 1) |-> IF i < 31 THEN (n \div (2 ^ i)) % 2 ELSE 0]

\* The number a vector's low k bits denote (k <= 31).
RECURSIVE LowNat(_, _)
LowNat(v, k) == IF k = 0 THEN 0 ELSE v[k - 1] * (2 ^ (k - 1)) + LowNat(v, k - 1)

WidthOf(v) == Cardinality(DOMAIN v)

\* An integral conversion from an unsigned or non-negative source to a type
\* of w bits: the value modulo 2^w; between same-width signed and unsigned
\* types it keeps the bit pattern (two's complement).
Convert(v, w) == [i \in 0..(w - 1) |-> IF i \in DOMAIN v THEN v[i] ELSE 0]

\* E1 << n in the type of E1: bits shifted out are lost.
ShiftLeft(v, n) == [i \in DOMAIN v |-> IF i >= n THEN v[i - n] ELSE 0]

\* E1 >> n for an unsigned or non-negative E1.
ShiftRight(v, n) == [i \in DOMAIN v |-> IF (i + n) \in DOMAIN v THEN v[i + n] ELSE 0]

BitOr(a, b) == [i \in DOMAIN a |-> IF a[i] = 1 \/ b[i] = 1 THEN 1 ELSE 0]

BitAnd(a, b) == [i \in DOMAIN a |-> IF a[i] = 1 /\ b[i] = 1 THEN 1 ELSE 0]

\* Storing an integer expression into a uint8_t: its low eight bits.
ToByte(v) == LowNat(v, 8)

\* buffer[k] promoted to int (the operand of << in the 16/24/32-bit gets).
IntOfByte(b) == BitsOf(b, 32)

\* (uint64_t) buffer[k]
U64OfByte(b) == BitsOf(b, 64)

---------------------------------------------------------------------------
(* The width descriptors (types.hpp is not among the sources; the storage  *)
(* containers follow the data model's "minimal-size storage type").        *)

Types == {"u8", "i8", "u16", "i16", "u24", "u32", "i32",
          "u40", "u48", "u56", "u64", "i64"}

SignedTypes == {"i8", "i16", "i32", "i64"}

\* Bits of Type::type, the storage container of a width descriptor.
ContainerBits(T) ==
    CASE T \in {"u8", "i8"} -> 8
      [] T \in {"u16", "i16"} -> 16
      [] T \in {"u24", "u32", "i32"} -> 32
      [] T \in {"u40", "u48", "u56", "u64", "i64"} -> 64

\* sizeof(ValueType) as the reader uses it: the size of the storage type.
SizeOf(T) == ContainerBits(T) \div 8

\* Number of buffer bytes the get/put specialisation of T touches.
Bytes(T) ==
    CASE T \in {"u8", "i8"} -> 1
      [] T \in {"u16", "i16"} -> 2
      [] T = "u24" -> 3
      [] T \in {"u32", "i32"} -> 4
      [] T = "u40" -> 5
      [] T = "u48" -> 6
      [] T = "u56" -> 7
      [] T \in {"u64", "i64"} -> 8

---------------------------------------------------------------------------
(* little_endian::get<T> and little_endian::put<T>, one per specialisation *)

\* buffer[k] of the source
At(b, k) == b[k + 1]

\* buffer[k] = x, x an integer expression converted to uint8_t
Store(b, k, x) == [b EXCEPT ![k + 1] = ToByte(x)]

Mask32 == BitsOf(255, 32)
Mask64 == BitsOf(255, 64)

get_u8(b) == BitsOf(At(b, 0), 8)

put_u8(v, b) == [b EXCEPT ![1] = ToByte(v)]

get_i8(b) == Convert(get_u8(b), 8)

put_i8(v, b) == put_u8(Convert(v, 8), b)

get_u16(b) ==
    Convert(BitOr(ShiftLeft(IntOfByte(At(b, 1)), 8), IntOfByte(At(b, 0))), 16)

put_u16(v, b) ==
    LET x  == Convert(v, 32)
        b0 == Store(b, 0, BitAnd(x, Mask32))
    IN  Store(b0, 1, BitAnd(ShiftRight(x, 8), Mask32))

get_i16(b) == Convert(get_u16(b), 16)

put_i16(v, b) == put_u16(Convert(v, 16), b)

get_u24(b) ==
    Convert(BitOr(BitOr(ShiftLeft(IntOfByte(At(b, 2)), 16),
                        ShiftLeft(IntOfByte(At(b, 1)), 8)),
                  IntOfByte(At(b, 0))), 32)

\* put<u24> written as put<u32>: a fourth byte stored.
put_u24_wide(v, b) ==
    LET b0 == Store(b, 0, BitAnd(v, Mask32))
        b1 == Store(b0, 1, BitAnd(ShiftRight(v, 8), Mask32))
        b2 == Store(b1, 2, BitAnd(ShiftRight(v, 16), Mask32))
    IN  Store(b2, 3, BitAnd(ShiftRight(v, 24), Mask32))

put_u24(v, b) ==
    LET b0 == Store(b, 0, BitAnd(v, Mask32))
        b1 == Store(b0, 1, BitAnd(ShiftRight(v, 8), Mask32))
    IN  Store(b1, 2, BitAnd(ShiftRight(v, 16), Mask32))

\* get<u32> with the top byte shifted by 16 instead of 24.
get_u32_shift16(b) ==
    Convert(BitOr(BitOr(BitOr(ShiftLeft(IntOfByte(At(b, 3)), 16),
                              ShiftLeft(IntOfByte(At(b, 2)), 16)),
                        ShiftLeft(IntOfByte(At(b, 1)), 8)),
                  IntOfByte(At(b, 0))), 32)

\* buffer[3] << 24 is computed in int; the result converted to uint32_t
\* keeps the 32 bits.
get_u32(b) ==
    Convert(BitOr(BitOr(BitOr(ShiftLeft(IntOfByte(At(b, 3)), 24),
                              ShiftLeft(IntOfByte(At(b, 2)), 16)),
                        ShiftLeft(IntOfByte(At(b, 1)), 8)),
                  IntOfByte(At(b, 0))), 32)

\* put<u32> storing the most significant byte first.
put_u32_msb_first(v, b) ==
    LET b0 == Store(b, 3, BitAnd(v, Mask32))
        b1 == Store(b0, 2, BitAnd(ShiftRight(v, 8), Mask32))
        b2 == Store(b1, 1, BitAnd(ShiftRight(v, 16), Mask32))
    IN  Store(b2, 0, BitAnd(ShiftRight(v, 24), Mask32))

put_u32(v, b) ==
    LET b0 == Store(b, 0, BitAnd(v, Mask32))
        b1 == Store(b0, 1, BitAnd(ShiftRight(v, 8), Mask32))
        b2 == Store(b1, 2, BitAnd(ShiftRight(v, 16), Mask32))
    IN  Store(b2, 3, BitAnd(ShiftRight(v, 24), Mask32))

get_i32(b) == Convert(get_u32(b), 32)

put_i32(v, b) == put_u32(Convert(v, 32), b)

\* The or of (uint64_t) buffer[k] << 8k for k = n-1 down to 0.
RECURSIVE OrBytes64(_, _)
OrBytes64(b, n) ==
    IF n = 1 THEN U64OfByte(At(b, 0))
    ELSE BitOr(ShiftLeft(U64OfByte(At(b, n - 1)), 8 * (n - 1)), OrBytes64(b, n - 1))

\* buffer[k] = (value >> 8k) & 0xFF for k = 0 .. n-1, value a uint64_t.
RECURSIVE StoreBytes64(_, _, _)
StoreBytes64(v, b, n) ==
    IF n = 0 THEN b
    ELSE Store(StoreBytes64(v, b, n - 1), n - 1,
               BitAnd(ShiftRight(v, 8 * (n - 1)), Mask64))

get_u40(b) == OrBytes64(b, 5)

\* put<u40> with buffer[4] taken from value >> 24 instead of value >> 32.
put_u40_shift24(v, b) ==
    Store(StoreBytes64(v, b, 4), 4, BitAnd(ShiftRight(v, 24), Mask64))

put_u40(v, b) == StoreBytes64(v, b, 5)

get_u48(b) == OrBytes64(b, 6)

put_u48(v, b) == StoreBytes64(v, b, 6)

get_u56(b) == OrBytes64(b, 7)

put_u56(v, b) == StoreBytes64(v, b, 7)

get_u64(b) == OrBytes64(b, 8)

put_u64(v, b) == StoreBytes64(v, b, 8)

get_i64(b) == Convert(get_u64(b), 64)

put_i64(v, b) == put_u64(Convert(v, 64), b)

\* little_endian::get<Type>(buffer)
get(T, b) ==
    CASE T = "u8" -> get_u8(b)   [] T = "i8" -> get_i8(b)
      [] T = "u16" -> get_u16(b) [] T = "i16" -> get_i16(b)
      [] T = "u24" -> get_u24(b)
      [] T = "u32" -> get_u32(b) [] T = "i32" -> get_i32(b)
      [] T = "u40" -> get_u40(b)
      [] T = "u48" -> get_u48(b)
      [] T = "u56" -> get_u56(b)
      [] T = "u64" -> get_u64(b) [] T = "i64" -> get_i64(b)

\* little_endian::put<Type>(value, buffer)
put(T, v, b) ==
    CASE T = "u8" -> put_u8(v, b)   [] T = "i8" -> put_i8(v, b)
      [] T = "u16" -> put_u16(v, b) [] T = "i16" -> put_i16(v, b)
      [] T = "u24" -> put_u24(v, b)
      [] T = "u32" -> put_u32(v, b) [] T = "i32" -> put_i32(v, b)
      [] T = "u40" -> put_u40(v, b)
      [] T = "u48" -> put_u48(v, b)
      [] T = "u56" -> put_u56(v, b)
      [] T = "u64" -> put_u64(v, b) [] T = "i64" -> put_i64(v, b)

---------------------------------------------------------------------------
(* The codec's inputs: byte patterns and the values they denote *)

Rep(a) == [i \in 1..BufLen |-> a]

Ascend == [i \in 1..BufLen |-> i]

\* The bytes s followed by the byte fill.
Lit(s, fill) == [i \in 1..BufLen |-> IF i <= Len(s) THEN s[i] ELSE fill]

\* 0x80 in byte k alone: the minimum negative value of a k-byte signed width.
TopAt(k) == [i \in 1..BufLen |-> IF i = k THEN 128 ELSE 0]

\* 0xFF in the first k bytes: the all-ones pattern of a k-byte width.
Ones(k) == [i \in 1..BufLen |-> IF i <= k THEN 255 ELSE 0]

\* The maximum value of a k-byte signed width.
MaxSigned(k) == [i \in 1..BufLen |-> IF i < k THEN 255 ELSE IF i = k THEN 127 ELSE 0]

Patterns ==
    {Rep(0), Rep(255), Ascend}
    \cup {TopAt(k) : k \in 1..8}
    \cup {Ones(k) : k \in 1..8}
    \cup {MaxSigned(k) : k \in {1, 2, 4, 8}}
    \cup {Lit(<<52, 18>>, 0),              \* 0x1234
          Lit(<<4, 3, 2, 1>>, 0),          \* 0x01020304
          Lit(<<239, 205, 171>>, 0),       \* 0xABCDEF
          Lit(<<239, 205, 171>>, 255),     \* 0xABCDEF below set high bits
          Lit(<<1, 3, 2, 7, 6, 5, 4>>, 0)} \* u8 1, u16 0x0203, u32 0x04050607

\* The w-bit value whose base-256 digits, least significant first, are p.
ValueOfBytes(p, w) == [j \in 0..(w - 1) |-> (p[(j \div 8) + 1] \div (2 ^ (j % 8))) % 2]

\* The values of T's storage container the harness passes to put<T>.
Values(T) == {ValueOfBytes(p, ContainerBits(T)) : p \in Patterns}

\* v lies in the range of the width of T: no bit at or above the width.
InRange(T, v) == \A j \in DOMAIN v : j >= 8 * Bytes(T) => v[j] = 0

NoValue == <<>>

NoCall == [op |-> "none", ty |-> "none", before |-> <<>>,
           pop |-> "none", pty |-> "none", pval |-> NoValue]

---------------------------------------------------------------------------
(* The codec harness: a caller's buffer, and get/put applied to it *)

InitCodec ==
    /\ buffer \in Patterns
    /\ value = NoValue
    /\ call = NoCall

\* value = little_endian::get<T>(buffer) on the drawn buffer
Get(T) ==
    /\ call.op = "none"
    /\ value' = get(T, buffer)
    /\ buffer' = buffer
    /\ call' = [op |-> "get", ty |-> T, before |-> buffer,
                pop |-> call.op, pty |-> call.ty, pval |-> value]

\* little_endian::put<T>(v, buffer) into the drawn buffer, v drawn from the
\* values of T's container
Put(T) ==
    /\ call.op = "none"
    /\ \E v \in Values(T) :
          /\ value' = v
          /\ buffer' = put(T, v, buffer)
    /\ call' = [op |-> "put", ty |-> T, before |-> buffer,
                pop |-> call.op, pty |-> call.ty, pval |-> value]

\* little_endian::put<T>(value, buffer) of the value the get<T> returned
PutBack ==
    /\ call.op = "get"
    /\ value' = value
    /\ buffer' = put(call.ty, value, buffer)
    /\ call' = [op |-> "put", ty |-> call.ty, before |-> buffer,
                pop |-> call.op, pty |-> call.ty, pval |-> value]

\* value = little_endian::get<T>(buffer) of the buffer the put<T> wrote
GetBack ==
    /\ call.op = "put"
    /\ call.pop = "none"
    /\ value' = get(call.ty, buffer)
    /\ buffer' = buffer
    /\ call' = [op |-> "get", ty |-> call.ty, before |-> buffer,
                pop |-> call.op, pty |-> call.ty, pval |-> value]

---------------------------------------------------------------------------
(* uint32_t arithmetic: a value is <<high 16 bits, low 16 bits>> *)

Limb == 2 ^ 16

ToU32(n) == <<n \div Limb, n % Limb>>

\* a + b in uint32_t: the sum modulo 2^32
Add32(a, b) ==
    LET lo == a[2] + b[2]
        hi == a[1] + b[1] + (lo \div Limb)
    IN  <<hi % Limb, lo % Limb>>

\* a <= b
Le32(a, b) == a[1] < b[1] \/ (a[1] = b[1] /\ a[2] <= b[2])

\* The number a uint32_t below 2^31 denotes.
NatOfU32(a) == a[1] * Limb + a[2]

\* 2^32 - 1 - k
NearMax32(k) == <<Limb - 1, Limb - 1 - k>>

---------------------------------------------------------------------------
(* endian_stream_reader<little_endian> *)

\* Buffers a reader is constructed over: n bytes 0x11, 0x22, ..., n bytes
\* 0xFF, 0xFE, ..., and the 7 bytes encoding u8 1, u16 0x0203, u32 0x04050607.
Ramp(n) == [i \in 1..n |-> 17 * i]

High(n) == [i \in 1..n |-> 256 - i]

Fields7 == <<1, 3, 2, 7, 6, 5, 4>>

ReaderBuffers ==
    {Ramp(n) : n \in 1..MaxSize} \cup {High(n) : n \in 1..MaxSize}
    \cup (IF Len(Fields7) <= MaxSize THEN {Fields7} ELSE {})

\* Lengths of the destination storage of a raw read (a uint32_t).
Lengths == {ToU32(n) : n \in 0..(MaxSize + 1)} \cup {NearMax32(k) : k \in 0..MaxSize}

\* Arguments of seek (a uint32_t).
Targets == 0..(MaxSize + 2)

NoLast == [op |-> "none", ty |-> "none", len |-> ToU32(0), n |-> 0,
           pos |-> 0, size |-> 0, buf |-> <<>>, overrun |-> FALSE]

\* The constructor: the buffer is not null and the size is not zero.
InitReader ==
    /\ m_buffer \in ReaderBuffers
    /\ m_size = Len(m_buffer)
    /\ m_size > 0
    /\ m_position = 0
    /\ status = "ok"
    /\ result = NoValue
    /\ storage = <<>>
    /\ last = NoLast

size == m_size

position == m_position

\* &m_buffer[m_position]: the bytes from the position to the buffer's end
BufferAt(p) == SubSeq(m_buffer, p + 1, m_size)

\* The assertion of read without the size of the value.
ReadFitsNoSize(T) == m_size >= m_position

\* assert(m_size >= m_position + sizeof(ValueType)); the sum is a size_t
\* (wider than uint32_t), so it does not wrap.
ReadFits(T) == m_size >= m_position + SizeOf(T)

\* Whether get<T> at the position touches a byte at an index >= m_size.
GetOverruns(T) == m_position + Bytes(T) > m_size

\* The memory get<T> reads when it runs past the buffer: the buffer's bytes
\* and then unspecified ones, g standing for them.
PastEnd(g) == BufferAt(m_position) \o [i \in 1..8 |-> g]

\* template<class ValueType> void read(ValueType& value).  A get reading
\* past the buffer's end is undefined: the program crashes, or goes on with
\* a value made of unspecified bytes.
Read(T) ==
    /\ status = "ok"
    /\ last' = [op |-> "read", ty |-> T, len |-> ToU32(0), n |-> 0,
                pos |-> m_position, size |-> m_size, buf |-> m_buffer,
                overrun |-> ReadFits(T) /\ GetOverruns(T)]
    /\ IF ~ReadFits(T)
       THEN /\ status' = "abort"
            /\ result' = NoValue
            /\ UNCHANGED m_position
       ELSE IF ~GetOverruns(T)
       THEN /\ result' = get(T, BufferAt(m_position))
            /\ m_position' = m_position + SizeOf(T)
            /\ status' = "ok"
       ELSE \/ /\ status' = "crash"
               /\ result' = NoValue
               /\ UNCHANGED m_position
            \/ /\ \E g \in {0, 255} : result' = get(T, PastEnd(g))
               /\ m_position' = m_position + SizeOf(T)
               /\ status' = "ok"
    /\ storage' = <<>>
    /\ UNCHANGED <<m_buffer, m_size>>

\* assert(m_size >= m_position + storage.m_size), the sum a uint32_t
CopyFits(L) == Le32(Add32(ToU32(m_position), L), ToU32(m_size))

\* The requested bytes all lie in the buffer: L <= m_size - m_position.
InBuffer(L) == Le32(L, ToU32(m_size - m_position))

\* A copy from the buffer's start instead of the position.
CopiedFromStart(L) == SubSeq(m_buffer, 1, NatOfU32(L))

\* std::copy_n(&m_buffer[m_position], storage.m_size, storage.m_data) when
\* the bytes all lie in the buffer: what the destination holds afterwards.
Copied(L) == SubSeq(m_buffer, m_position + 1, m_position + NatOfU32(L))

\* void read(const storage::const_storage& storage), the destination
\* distinct from the reader's buffer.  A copy running past the buffer's end
\* is undefined: the program crashes, or goes on with unspecified bytes
\* after the buffer's own in the destination.
ReadStorage(L) ==
    /\ status = "ok"
    /\ last' = [op |-> "copy", ty |-> "none", len |-> L, n |-> 0,
                pos |-> m_position, size |-> m_size, buf |-> m_buffer,
                overrun |-> CopyFits(L) /\ ~InBuffer(L)]
    /\ IF ~CopyFits(L)
       THEN /\ status' = "abort"
            /\ storage' = <<>>
            /\ UNCHANGED m_position
       ELSE IF InBuffer(L)
       THEN /\ storage' = Copied(L)
            /\ m_position' = NatOfU32(Add32(ToU32(m_position), L))
            /\ status' = "ok"
       ELSE \/ /\ status' = "crash"
               /\ storage' = <<>>
               /\ UNCHANGED m_position
            \/ /\ storage' = BufferAt(m_position)
               /\ m_position' = NatOfU32(Add32(ToU32(m_position), L))
               /\ status' = "ok"
    /\ result' = NoValue
    /\ UNCHANGED <<m_buffer, m_size>>

\* The assertion of seek with < for <=.
SeekFitsStrict(n) == n < m_size

\* assert(new_position <= m_size)
SeekFits(n) == n <= m_size

\* void seek(uint32_t new_position)
Seek(n) ==
    /\ status = "ok"
    /\ last' = [op |-> "seek", ty |-> "none", len |-> ToU32(0), n |-> n,
                pos |-> m_position, size |-> m_size, buf |-> m_buffer,
                overrun |-> FALSE]
    /\ IF SeekFits(n)
       THEN /\ m_position' = n
            /\ status' = "ok"
       ELSE /\ status' = "abort"
            /\ UNCHANGED m_position
    /\ result' = NoValue
    /\ storage' = <<>>
    /\ UNCHANGED <<m_buffer, m_size>>

---------------------------------------------------------------------------
(* Specifications *)

\* The codec harness alone; the reader is constructed and left untouched.
IdleReader ==
    /\ m_buffer = <<0>>
    /\ m_size = 1
    /\ m_position = 0
    /\ status = "ok"
    /\ result = NoValue
    /\ storage = <<>>
    /\ last = NoLast

\* The reader alone; no codec call is made outside it.
IdleCodec ==
    /\ buffer = Rep(0)
    /\ value = NoValue
    /\ call = NoCall

NextCodec ==
    \/ \E T \in Types : Get(T) /\ UNCHANGED readerVars
    \/ \E T \in Types : Put(T) /\ UNCHANGED readerVars
    \/ PutBack /\ UNCHANGED readerVars
    \/ GetBack /\ UNCHANGED readerVars

InitCodecSpec == InitCodec /\ IdleReader

SpecCodec == InitCodecSpec /\ [][NextCodec]_vars

Next ==
    \/ \E T \in Types : Read(T) /\ UNCHANGED codecVars
    \/ \E L \in Lengths : ReadStorage(L) /\ UNCHANGED codecVars
    \/ \E n \in Targets : Seek(n) /\ UNCHANGED codecVars

Init == InitReader /\ IdleCodec

Spec == Init /\ [][Next]_vars

---------------------------------------------------------------------------
(* Notions the properties are stated in *)

\* (v >> 8i) & 0xFF as a number: bits 8i .. 8i+7 of v.
RECURSIVE ByteOf(_, _, _)
ByteOf(v, i, k) ==
    IF k = 0 THEN 0
    ELSE (IF (8 * i + k - 1) \in DOMAIN v THEN v[8 * i + k - 1] ELSE 0) * (2 ^ (k - 1))
         + ByteOf(v, i, k - 1)

\* Bit j of the number whose base-256 digits, least significant first, are b.
BitOfBytes(b, j) == (b[(j \div 8) + 1] \div (2 ^ (j % 8))) % 2

\* The sum of b[i] * 256^i over the first n bytes (n <= 3).
RECURSIVE SumBytes(_, _)
SumBytes(b, n) == IF n = 0 THEN 0 ELSE b[n] * (256 ^ (n - 1)) + SumBytes(b, n - 1)

\* The number a signed value of w <= 32 bits denotes in two's complement:
\* its low w-1 bits, less 2^(w-1) when the top bit is set.
IntValue(v) ==
    LET w == WidthOf(v)
        half == IF w = 1 THEN 0 ELSE 2 ^ (w - 2)
    IN  IF w = 1 THEN 0 - v[0]
        ELSE (LowNat(v, w - 1) - v[w - 1] * half) - v[w - 1] * half

\* The two's complement number the first n bytes of b denote (n <= 4).
IntOfBytes(b, n) ==
    LET top  == b[n]
        half == (2 ^ (8 * n - 2))
    IN  ((SumBytes(b, n - 1) + (top % 128) * (256 ^ (n - 1)))
            - (top \div 128) * half) - (top \div 128) * half

\* L <= size - pos at the start of the last reader call.
LastInBuffer == Le32(last.len, ToU32(last.size - last.pos))

---------------------------------------------------------------------------
(* Properties of the codec, checked under SpecCodec *)

\* C5: round trip in little-endian order: get<T> applied to the buffer that
\* put<T>(v, buffer) wrote returns v, for every type T and every value v in
\* the range of T's width.
C5_RoundTrip ==
    (call.op = "get" /\ call.pop = "put" /\ InRange(call.ty, call.pval))
        => value = call.pval

\* A round trip of the minimum negative 64-bit value has happened.
C5_Witness ==
    /\ call.op = "get" /\ call.pop = "put" /\ call.ty = "i64"
    /\ call.pval = ValueOfBytes(TopAt(8), 64)
    /\ value = call.pval

\* C6: put<T>(v, buffer) writes buffer[i] = (v >> 8i) & 0xFF for each
\* i < width/8, whatever bits v has at or above the width, and changes no
\* byte at an offset >= width/8; so u16 0x1234 gives 0x34 0x12, u32
\* 0x01020304 gives 0x04 0x03 0x02 0x01 and u24 0xABCDEF gives 0xEF 0xCD 0xAB.
C6_PutLayout ==
    /\ call.op = "put" =>
          \A i \in 0..(BufLen - 1) :
              buffer[i + 1] = IF i < Bytes(call.ty) THEN ByteOf(value, i, 8)
                              ELSE call.before[i + 1]
    /\ (call.op = "put" /\ call.ty = "u16" /\ LowNat(value, 16) = 4660) =>
          SubSeq(buffer, 1, 2) = <<52, 18>>
    /\ (call.op = "put" /\ call.ty = "u32" /\ value[31] = 0
            /\ LowNat(value, 31) = 16909060) =>
          SubSeq(buffer, 1, 4) = <<4, 3, 2, 1>>
    /\ (call.op = "put" /\ call.ty = "u24" /\ LowNat(value, 24) = 11259375) =>
          SubSeq(buffer, 1, 3) = <<239, 205, 171>>

\* put<u24> of 0xFFABCDEF, a value with bits above the width, has written
\* 0xEF 0xCD 0xAB over a buffer of 0xFF bytes and left the fourth byte.
C6_Witness ==
    /\ call.op = "put" /\ call.ty = "u24"
    /\ ~InRange("u24", value)
    /\ call.before = Rep(255)
    /\ SubSeq(buffer, 1, 4) = <<239, 205, 171, 255>>

\* C9: get of an unsigned width returns the sum of b[i] * 256^i with every
\* container bit at or above the width zero; get of a signed width returns
\* the two's complement reading of the same bits; put of the signed 8-bit
\* value -1 writes the byte 0xFF.
C9_GetExtension ==
    /\ call.op = "get" =>
          /\ DOMAIN value = 0..(ContainerBits(call.ty) - 1)
          /\ \A j \in DOMAIN value :
                value[j] = IF j < 8 * Bytes(call.ty)
                           THEN BitOfBytes(call.before, j) ELSE 0
    /\ (call.op = "get" /\ call.ty \in {"u8", "u16", "u24"}) =>
          LowNat(value, 8 * Bytes(call.ty)) = SumBytes(call.before, Bytes(call.ty))
    /\ (call.op = "get" /\ call.ty \in {"i8", "i16", "i32"}) =>
          IntValue(value) = IntOfBytes(call.before, Bytes(call.ty))
    /\ (call.op = "put" /\ call.ty = "i8" /\ IntValue(value) = 0 - 1) =>
          buffer[1] = 255

\* get<i16> of the bytes 0x00 0x80 has returned -32768.
C9_Witness ==
    /\ call.op = "get" /\ call.ty = "i16"
    /\ SubSeq(call.before, 1, 2) = <<0, 128>>
    /\ IntValue(value) = 0 - 32768

\* C10: writing get<T>(b) back with put<T> reproduces the bytes b.
C10_PutGet ==
    (call.op = "put" /\ call.pop = "get") =>
        SubSeq(buffer, 1, Bytes(call.ty)) = SubSeq(call.before, 1, Bytes(call.ty))

\* The all-ones pattern of the 40-bit width has been read and written back.
C10_Witness ==
    /\ call.op = "put" /\ call.pop = "get" /\ call.ty = "u40"
    /\ SubSeq(call.before, 1, 5) = <<255, 255, 255, 255, 255>>
    /\ SubSeq(buffer, 1, 5) = <<255, 255, 255, 255, 255>>

---------------------------------------------------------------------------
(* Properties of the reader, checked under Spec *)

\* C1: 0 <= position() <= size() always, and a read or seek that would
\* move the position past the size stops the program, the position left as
\* it was, instead of going on with a clamped or wrapped position.
C1_PositionBounded ==
    /\ 0 <= position /\ position <= size
    /\ (last.op = "read" /\ last.pos + Bytes(last.ty) > last.size) =>
          (status # "ok" /\ position = last.pos)
    /\ (last.op = "copy" /\ ~LastInBuffer) =>
          (status # "ok" /\ position = last.pos)
    /\ (last.op = "seek" /\ last.n > last.size) =>
          (status # "ok" /\ position = last.pos)

\* C2: a typed read<T> issued with fewer bytes left than T occupies aborts:
\* it stores no value, touches no byte at an index >= size and leaves the
\* position.
C2_ShortReadFaults ==
    (last.op = "read" /\ last.size - last.pos < Bytes(last.ty)) =>
        /\ status = "abort"
        /\ result = NoValue
        /\ ~last.overrun
        /\ position = last.pos

\* read<u64> on a reader of size 4 has aborted.
C2_Witness ==
    /\ last.op = "read" /\ last.ty = "u64" /\ last.size = 4 /\ last.pos = 0
    /\ status = "abort" /\ position = 0

\* C3: a raw read of length L goes ahead only when size - position >= L;
\* when L > size - position it aborts, copies nothing and leaves the
\* position, also when position + L exceeds 2^32 - 1.
C3_RawReadChecked ==
    last.op = "copy" =>
        IF LastInBuffer THEN status = "ok"
        ELSE status = "abort" /\ storage = <<>> /\ position = last.pos

\* C4: seek(n) with n <= size makes position() return n; with n > size it
\* aborts and leaves the position; size() and the buffer do not change.
C4_Seek ==
    last.op = "seek" =>
        /\ size = last.size
        /\ m_buffer = last.buf
        /\ IF last.n <= last.size
           THEN status = "ok" /\ position = last.n
           ELSE status = "abort" /\ position = last.pos

\* A backward seek from a position reached by reading has happened.
C4_Witness ==
    /\ last.op = "seek" /\ last.pos > 0 /\ last.n < last.pos
    /\ status = "ok" /\ position = last.n

\* C7: read<T> at position p with width(T)/8 bytes left returns what get<T>
\* decodes from the bytes at p and sets the position to p + width(T)/8.
C7_ReadAdvancesByWidth ==
    (last.op = "read" /\ last.size - last.pos >= Bytes(last.ty)) =>
        /\ status = "ok"
        /\ result = get(last.ty, SubSeq(last.buf, last.pos + 1, last.size))
        /\ position = last.pos + Bytes(last.ty)

\* C8: a raw read of length L <= size - p at position p leaves the bytes
\* buffer[p .. p+L) in the destination, in order, sets the position to
\* p + L, and changes neither size() nor any byte of the buffer.
C8_RawRead ==
    (last.op = "copy" /\ LastInBuffer) =>
        /\ status = "ok"
        /\ Len(storage) = NatOfU32(last.len)
        /\ \A i \in 1..Len(storage) : storage[i] = last.buf[last.pos + i]
        /\ position = last.pos + NatOfU32(last.len)
        /\ size = last.size
        /\ m_buffer = last.buf

\* Three bytes have been copied from position 2.
C8_Witness ==
    /\ last.op = "copy" /\ last.pos = 2 /\ last.len = ToU32(3)
    /\ m_size >= 5
    /\ storage = SubSeq(m_buffer, 3, 5)
    /\ position = 5

============================================================================
